---- MODULE Spec2Model ----
(***************************************************************************)
(* Model of scan-github/github_search_actions.py: the third-party GitHub   *)
(* Actions inventory.  The specifications of the module:                   *)
(*   Spec          the run of main(): load_orgs, the crawl, the report     *)
(*   FairSpec      Spec, where a step that can be taken is taken           *)
(*   SpecClassify  is_third_party applied to bounded references            *)
(*   SpecParse     the extraction loop of parse_workflow_file applied to   *)
(*                 bounded workflow documents                              *)
(*   SpecGate      enforce_rate_limit applied to bounded responses of the  *)
(*                 rate-limit request and bounded clock readings           *)
(*   SpecSearch    search_all_orgs of github_search.py (the same loop is   *)
(*                 in github_audit_nextjs.py): cooldown, quota check,      *)
(*                 search request, backoff                                 *)
(*   FairSpecSearch  SpecSearch, where a step that can be taken is taken   *)
(*   SpecListing   fetch_workflow_files applied to bounded responses of    *)
(*                 the workflows-directory request                         *)
(* Python strings that the code inspects character by character are        *)
(* sequences of one-character strings.                                     *)
(***************************************************************************)
EXTENDS Integers, Sequences, FiniteSets, TLC

VARIABLES
    \* ---- the run of main() ----
    pc,             \* position of main()
    tokenSet,       \* GITHUB_TOKEN is defined
    cache,          \* the ORG_FILE artifact
    orgs,           \* main: orgs
    orgIdx,         \* index of the org of the `for org in orgs` loop
    repos,          \* fetch_all_repos: repos (then main: repos)
    page,           \* fetch_all_repos: page
    repoIdx,        \* index of the repo of the `for repo in repos` loop
    workflow_files, \* main: workflow_files
    fileIdx,        \* index of the wf of the `for wf in workflow_files` loop
    repo_inventory, \* main: repo_inventory
    org_results,    \* main: org_results
    results,        \* main: results
    reportFile,     \* the RESULTS_FILE artifact
    writes,         \* number of times RESULTS_FILE was written
    third_party_count, \* main: third_party_count of the summary
    summary,        \* the lines printed by the summary
    exitStatus,     \* exit status of the process
    lastSleep,      \* seconds slept by the step just taken (0: no sleep)
    issued,         \* kinds of remote request issued so far
    lastCall,       \* the request of the step just taken: kind and status
    visited,        \* orgs handed to fetch_all_repos, in order
    enumEmpty,      \* orgs whose enumeration returned no repository
    notFound,       \* (org, repo) whose workflows directory was not found
    parseLog,       \* what parse_workflow_file returned for each file of
                    \* the repository under way
    lastBatch,      \* fetch_all_repos: len(batch) of the last success page
                    \* (0: the last response was not a success)
    \* ---- is_third_party alone ----
    cl_pc, action_ref, own_orgs, cl_out,
    \* ---- parse_workflow_file alone ----
    pw_pc, workflow_data, pw_out,
    \* ---- enforce_rate_limit alone ----
    rl_pc,          \* position: "call", then "done"
    rl_resp,        \* the response of GET /rate_limit
    rl_now,         \* int(time.time()) read by enforce_rate_limit
    rl_out,         \* what the call did: the pair of the check, the sleeps
    \* ---- search_all_orgs ----
    s_pc,           \* position of search_all_orgs
    s_orgs,         \* search_all_orgs: orgs
    s_idx,          \* index of the org of the `for org in orgs` loop
    retries,        \* search_all_orgs: retries
    requests_made,  \* search_all_orgs: requests_made
    search_results, \* orgs whose items were added to search_results
    s_attempts,     \* search requests issued for the org under way
    s_burst,        \* search requests issued since the last 65 s cooldown
    s_sleep,        \* the sleep of the step just taken: kind and seconds
    \* ---- fetch_workflow_files alone ----
    wl_pc,          \* position: "call", then "done"
    wl_status,      \* status code of the response
    wl_body,        \* response.json()
    wl_out          \* the list returned

mainVars == <<pc, tokenSet, cache, orgs, orgIdx, repos, page, repoIdx,
              workflow_files, fileIdx, repo_inventory, org_results, results,
              reportFile, writes, third_party_count, summary, exitStatus,
              lastSleep, issued, lastCall, visited, enumEmpty, notFound,
              parseLog, lastBatch>>
classVars == <<cl_pc, action_ref, own_orgs, cl_out>>
parseVars == <<pw_pc, workflow_data, pw_out>>
gateVars == <<rl_pc, rl_resp, rl_now, rl_out>>
searchVars == <<s_pc, s_orgs, s_idx, retries, requests_made, search_results,
                s_attempts, s_burst, s_sleep>>
listVars == <<wl_pc, wl_status, wl_body, wl_out>>
vars == <<mainVars, classVars, parseVars, gateVars, searchVars, listVars>>

----------------------------------------------------------------------------
(* Bounds *)

MaxTokens == 4      \* tokens concatenated into a reference of SpecClassify
MaxJobs == 2        \* jobs of a workflow document of SpecParse
MaxSteps == 2       \* steps of a job of a workflow document of SpecParse

\* the outcome of requests.get when it raises instead of returning a response
MaxRemaining == 2
MaxSearchOrgs == 3
MaxListing == 3
MaxTicks == 4

TransportError == 0

SeqsUpTo(S, n) == UNION { [1..k -> S] : k \in 0..n }

----------------------------------------------------------------------------
(* Python string primitives used by is_third_party *)

\* str.lower(), one character
LowerChar(c) ==
    CASE c = "A" -> "a"
      [] c = "D" -> "d"
      [] c = "B" -> "b"
      [] OTHER -> c

\* str.lower()
Lower(s) == [i \in 1..Len(s) |-> LowerChar(s[i])]

\* the characters str.strip() removes
IsSpace(c) == c = " "

RECURSIVE LStrip(_)
LStrip(s) == IF s # <<>> /\ IsSpace(Head(s)) THEN LStrip(Tail(s)) ELSE s

RECURSIVE RStrip(_)
RStrip(s) ==
    IF s # <<>> /\ IsSpace(s[Len(s)]) THEN RStrip(SubSeq(s, 1, Len(s) - 1))
    ELSE s

\* str.strip()
Strip(s) == RStrip(LStrip(s))

\* str.startswith(p)
StartsWith(s, p) == Len(s) >= Len(p) /\ SubSeq(s, 1, Len(p)) = p

\* str.split(sep) for a one-character separator: always at least one part
RECURSIVE Split(_, _)
Split(s, sep) ==
    IF \E i \in 1..Len(s) : s[i] = sep
    THEN LET i == CHOOSE k \in 1..Len(s) :
                      s[k] = sep /\ \A j \in 1..(k - 1) : s[j] # sep
         IN  <<SubSeq(s, 1, i - 1)>> \o Split(SubSeq(s, i + 1, Len(s)), sep)
    ELSE <<s>>

\* x in list
InList(x, l) == \E i \in 1..Len(l) : l[i] = x

S_actions_slash == <<"a", "c", "t", "i", "o", "n", "s", "/">>
S_docker == <<"d", "o", "c", "k", "e", "r">>

----------------------------------------------------------------------------
(* is_third_party(action_ref, own_orgs) *)

\* variants of is_third_party: without `.lower()`, without the `actions/`
\* test, without the `docker` test
is_third_party_nolower(ref, own) ==
    LET norm  == Strip(ref)
        parts == Split(Split(norm, "@")[1], "/")
        owner == parts[1]
    IN  IF StartsWith(norm, S_actions_slash) THEN FALSE
        ELSE IF parts = <<>> THEN FALSE
        ELSE ~InList(owner, own) /\ owner # S_docker

is_third_party_noactions(ref, own) ==
    LET norm  == Strip(Lower(ref))
        parts == Split(Split(norm, "@")[1], "/")
        owner == parts[1]
    IN  IF parts = <<>> THEN FALSE
        ELSE ~InList(owner, own) /\ owner # S_docker

is_third_party_nodocker(ref, own) ==
    LET norm  == Strip(Lower(ref))
        parts == Split(Split(norm, "@")[1], "/")
        owner == parts[1]
    IN  IF StartsWith(norm, S_actions_slash) THEN FALSE
        ELSE IF parts = <<>> THEN FALSE
        ELSE ~InList(owner, own)

is_third_party(ref, own) ==
    LET norm  == Strip(Lower(ref))
        parts == Split(Split(norm, "@")[1], "/")
        owner == parts[1]
    IN  IF StartsWith(norm, S_actions_slash) THEN FALSE
        ELSE IF parts = <<>> THEN FALSE
        ELSE ~InList(owner, own) /\ owner # S_docker

----------------------------------------------------------------------------
(* SpecClassify: is_third_party on bounded references *)

Tokens == { <<"a", "c", "t", "i", "o", "n", "s">>,
            <<"A", "c", "t", "i", "o", "n", "s">>,
            <<"d", "o", "c", "k", "e", "r">>,
            <<"D", "o", "c", "k", "e", "r">>,
            <<"a", "c", "m", "e">>,
            <<"A", "c", "m", "e">>,
            <<"r", "a", "n", "d">>,
            <<"/">>, <<"@">>, <<" ">>, <<":", "/", "/">> }

RECURSIVE Flatten(_)
Flatten(ss) == IF ss = <<>> THEN <<>> ELSE Head(ss) \o Flatten(Tail(ss))

TokenSeqs(n) == UNION { [1..k -> Tokens] : k \in 0..n }

Refs(n) == { Flatten(ts) : ts \in TokenSeqs(n) }

OwnOrgLists == { <<>>,
                 << <<"a", "c", "m", "e">> >>,
                 << <<"a", "c", "m", "e">>, <<"r", "a", "n", "d">> >> }

----------------------------------------------------------------------------
(* Workflow documents: what yaml.safe_load makes of the fetched text.      *)
(*   document  kind "unparseable" (safe_load raises), "other" (a value     *)
(*             that is not a dict) or "map"; jobs_kind says whether the    *)
(*             key `jobs` is absent, holds a non-dict, or holds a dict,    *)
(*             whose values are listed in jobs in document order           *)
(*   job       kind "other" (not a dict) or "map"; steps_kind likewise     *)
(*             for the key `steps` ("list" when it holds a list)           *)
(*   step      kind "other" (not a dict) or "map"; uses is the value of    *)
(*             the key `uses` or Absent, run says the key `run` is there   *)
(***************************************************************************)

Absent == "<absent>"          \* the key is not in the dict
NonString == "<non-string>"   \* a `uses` value that is not a str (None, 1)

RefCheckout == "actions/checkout@v3"
RefCool == "randomuser/cool-action@v1"

OtherStep == [kind |-> "other", uses |-> Absent, run |-> FALSE]
MapStep(u, r) == [kind |-> "map", uses |-> u, run |-> r]
OtherJob == [kind |-> "other", steps_kind |-> "absent", steps |-> <<>>]
MapJob(k, st) == [kind |-> "map", steps_kind |-> k, steps |-> st]
Doc(k, jk, js) == [kind |-> k, jobs_kind |-> jk, jobs |-> js]

\* a step that is not a mapping, a `run` step, a `uses` step, and a step
\* with both keys
Steps == {OtherStep, MapStep(Absent, TRUE), MapStep(RefCheckout, FALSE),
          MapStep(RefCool, TRUE)}

Jobs == {OtherJob, MapJob("absent", <<>>), MapJob("other", <<>>)}
        \cup { MapJob("list", st) : st \in SeqsUpTo(Steps, MaxSteps) }

Docs(n) ==
    {Doc("unparseable", "absent", <<>>), Doc("other", "absent", <<>>),
     Doc("map", "absent", <<>>), Doc("map", "other", <<>>)}
    \cup { Doc("map", "map", js) : js \in SeqsUpTo(Jobs, n) }

----------------------------------------------------------------------------
(* parse_workflow_file, from the fetched text on.  The result is the list  *)
(* returned, or raised = TRUE when an exception leaves the function.       *)

Returned(l) == [raised |-> FALSE, value |-> l]
Raised == [raised |-> TRUE, value |-> <<>>]

\* `if isinstance(step, dict) and "uses" in step: append(step["uses"])`
StepRefsNoKeyTest(step) ==
    IF step.kind = "map" THEN <<step.uses>> ELSE <<>>

StepRefs(step) ==
    IF step.kind = "map" /\ step.uses # Absent THEN <<step.uses>> ELSE <<>>

\* `for step in steps`
RECURSIVE StepsLoop(_)
StepsLoop(steps) ==
    IF steps = <<>> THEN <<>>
    ELSE StepRefs(Head(steps)) \o StepsLoop(Tail(steps))

\* `steps = job_data.get("steps", []); if isinstance(steps, list): ...`
\* job_data.get raises AttributeError when job_data is not a dict
JobRefs(job) ==
    IF job.kind # "map" THEN Raised
    ELSE IF job.steps_kind = "list" THEN Returned(StepsLoop(job.steps))
    ELSE Returned(<<>>)

\* `for job_name, job_data in jobs.items()`, acc is uses_references
RECURSIVE JobsLoop(_, _)
JobsLoop(jobs, acc) ==
    IF jobs = <<>> THEN Returned(acc)
    ELSE LET r == JobRefs(Head(jobs))
         IN  IF r.raised THEN Raised
             ELSE JobsLoop(Tail(jobs), acc \o r.value)

\* from `try: content = response.text` to the end
parse_workflow_data(doc) ==
    IF doc.kind = "unparseable" THEN Returned(<<>>)
    ELSE IF doc.kind # "map" THEN Returned(<<>>)
    ELSE IF doc.jobs_kind = "map" THEN JobsLoop(doc.jobs, <<>>)
    ELSE Returned(<<>>)

\* the whole function, for the outcome of its content request
parse_workflow_file(status, doc) ==
    IF status = TransportError THEN Raised
    ELSE IF status # 200 THEN Returned(<<>>)
    ELSE parse_workflow_data(doc)

----------------------------------------------------------------------------
(* The run of main(): data the remote API and the file system supply *)

MaxOrgs == 2        \* organizations of the list
MaxPages == 2       \* non-empty pages of one repository enumeration
MaxBatch == 2       \* repositories of one page
MaxFiles == 2       \* entries of one workflows-directory listing

OrgPool == {"acme", "Beta"}
\* the repositories of an organization, in the order the API lists them
RepoList == <<"api", "web">>
\* the names of a workflows directory, in the order the API lists them
FileList == <<"ci.yml", "release.yml">>

\* the characters of the strings of the run that is_third_party inspects
Chars(s) ==
    CASE s = "acme" ->
           <<"a", "c", "m", "e">>
      [] s = "Beta" ->
           <<"B", "e", "t", "a">>
      [] s = "actions/checkout@v3" ->
           <<"a", "c", "t", "i", "o", "n", "s", "/", "c", "h", "e", "c", "k", "o", "u", "t", "@", "v", "3">>
      [] s = "randomuser/cool-action@v1" ->
           <<"r", "a", "n", "d", "o", "m", "u", "s", "e", "r", "/", "c", "o", "o", "l", "-", "a", "c", "t", "i", "o", "n", "@", "v", "1">>

\* sequences without repetition
Distinct(q) == \A i, j \in 1..Len(q) : i # j => q[i] # q[j]
DistinctSeqs(S, n) == { q \in SeqsUpTo(S, n) : Distinct(q) }

OrgLists == DistinctSeqs(OrgPool, MaxOrgs)

\* ORG_FILE: absent, unreadable as JSON, or a list of names
CacheStates == {[state |-> "absent", orgs |-> <<>>],
                [state |-> "corrupt", orgs |-> <<>>]}
               \cup { [state |-> "list", orgs |-> l] : l \in OrgLists }

\* status codes of a response
StatusCodes == {200, 403, 404}
Outcomes == StatusCodes \cup {TransportError}

\* an entry of a workflows-directory listing
PathOf(name) ==
    CASE name = "ci.yml" -> ".github/workflows/ci.yml"
      [] name = "release.yml" -> ".github/workflows/release.yml"

Item(t, name) ==
    [type |-> t, name |-> name, path |-> PathOf(name),
     download_url |-> <<"raw", PathOf(name)>>]

\* the subsequences of q of at most n elements
RECURSIVE SubSeqs(_, _)
SubSeqs(q, n) ==
    IF q = <<>> \/ n = 0 THEN {<<>>}
    ELSE SubSeqs(Tail(q), n)
         \cup { <<Head(q)>> \o r : r \in SubSeqs(Tail(q), n - 1) }

\* the JSON body of a workflows-directory response: a list or something else
Listings == { [kind |-> "list", items |-> q] :
                q \in UNION { { [i \in 1..Len(ns) |-> Item(ts[i], ns[i])] :
                                  ts \in [1..Len(ns) -> {"file", "dir"}] } :
                              ns \in SubSeqs(FileList, MaxFiles) } }
            \cup {[kind |-> "other", items |-> <<>>]}

\* the documents a content request of the run can return
DocExample ==
    Doc("map", "map", <<MapJob("list", <<MapStep(RefCheckout, FALSE),
                                         MapStep(RefCool, FALSE),
                                         MapStep(RefCool, FALSE)>>)>>)
DocRunOnly == Doc("map", "map", <<MapJob("list", <<MapStep(Absent, TRUE)>>)>>)
DocNullJob ==
    Doc("map", "map", <<MapJob("list", <<MapStep(RefCool, FALSE)>>), OtherJob>>)
DocUnparseable == Doc("unparseable", "absent", <<>>)
DocUsesNull ==
    Doc("map", "map", <<MapJob("list", <<MapStep(NonString, FALSE)>>)>>)

CrawlDocs == {DocExample, DocRunOnly, DocNullJob, DocUnparseable, DocUsesNull}

\* rate-limit status: the clock and the reset epochs of the responses
Clock == {1000}
Resets == {1030, 1200}

----------------------------------------------------------------------------
(* Python dicts, in insertion order: a sequence of [k, v] *)

EmptyDict == <<>>
HasKey(d, k) == \E i \in 1..Len(d) : d[i].k = k
Get(d, k) == d[CHOOSE i \in 1..Len(d) : d[i].k = k].v
\* d[k] = v
DictPut(d, k, v) ==
    IF HasKey(d, k)
    THEN [i \in 1..Len(d) |-> IF d[i].k = k THEN [k |-> k, v |-> v] ELSE d[i]]
    ELSE Append(d, [k |-> k, v |-> v])

----------------------------------------------------------------------------
(* check_rate_limit and enforce_rate_limit *)

RateResponses ==
    { [status |-> 200, remaining |-> r, reset |-> t] :
        r \in {0, 1}, t \in Resets }
    \cup { [status |-> s, remaining |-> 0, reset |-> 0] :
             s \in Outcomes \ {200} }

\* the pair check_rate_limit returns for a response
check_rate_limit(resp) ==
    IF resp.status = 200 THEN <<resp.remaining, resp.reset>> ELSE <<0, 0>>

Max(a, b) == IF a >= b THEN a ELSE b

\* variant: the shorter of the two waits
SleepTimeMin(reset_time, now) ==
    IF reset_time - now <= 65 THEN reset_time - now ELSE 65

\* `sleep_time = max(reset_time - int(time.time()), 65)`
SleepTime(reset_time, now) == Max(reset_time - now, 65)

\* enforce_rate_limit: the sleeps made for the pair the check returned
GateSleeps(rl, now) == IF rl[1] = 0 THEN <<SleepTime(rl[2], now)>> ELSE <<>>

\* epoch seconds: clock readings and reset times of the quota
GateTimes == { 1000 + 40 * k : k \in 0..MaxTicks }

\* responses of GET /rate_limit: any status, with the body the server sent
GateResponses ==
    { [status |-> st, remaining |-> r, reset |-> t] :
        st \in Outcomes, r \in 0..MaxRemaining, t \in GateTimes }

\* before the call
NotCalled == [raised |-> FALSE, result |-> <<>>, sleeps |-> <<>>, checks |-> 0]
\* the call went through: the pair of the check, the sleeps, the checks made
Gated(rl, sl) == [raised |-> FALSE, result |-> rl, sleeps |-> sl, checks |-> 1]
\* requests.get raised inside check_rate_limit
GateRaised == [raised |-> TRUE, result |-> <<>>, sleeps |-> <<>>, checks |-> 1]

\* enforce_rate_limit() for a response of the quota request and a clock
enforce_rate_limit(resp, now) ==
    IF resp.status = TransportError
    THEN GateRaised
    ELSE LET rl == check_rate_limit(resp)
         IN  Gated(rl, GateSleeps(rl, now))

----------------------------------------------------------------------------
(* Decisions of the crawl, one operator per place of the code *)

\* variant: the cache is used whenever the file exists
CacheUsableIfExists(c) == c.state # "absent"

\* load_orgs: the cache is used when it exists and parses
CacheUsable(c) == c.state = "list"

\* fetch_orgs: ORG_FILE after the response; variant: the list is not saved
fetch_orgs_cache_unsaved(status, body, c) == c

fetch_orgs_cache(status, body, c) ==
    IF status = 200 THEN [state |-> "list", orgs |-> body] ELSE c

\* main: `if not orgs: sys.exit(1)`
NoOrgsNever(o) == FALSE

NoOrgs(o) == o = <<>>

\* fetch_all_repos, one page: what the loop does with the response
fetch_all_repos_page_raising(status, batch) ==
    IF status # 200 THEN "raise"
    ELSE IF batch = <<>> THEN "break"
    ELSE "extend"

\* variant: the status of the response is not looked at
fetch_all_repos_page_anystatus(status, batch) ==
    IF status = TransportError THEN "raise"
    ELSE IF batch = <<>> THEN "break"
    ELSE "extend"

\* variant: an empty page does not end the loop
fetch_all_repos_page_noempty(status, batch) ==
    IF status = TransportError THEN "raise"
    ELSE IF status # 200 THEN "break"
    ELSE "extend"

fetch_all_repos_page(status, batch) ==
    IF status = TransportError THEN "raise"
    ELSE IF status # 200 THEN "break"
    ELSE IF batch = <<>> THEN "break"
    ELSE "extend"

\* variant: the page of the file in the place of its download URL
FileEntryHtmlUrl(item) ==
    [name |-> item.name, path |-> item.path,
     download_url |-> <<"html", item.path>>]

\* fetch_workflow_files: the list returned for a response
FileEntry(item) ==
    [name |-> item.name, path |-> item.path,
     download_url |-> item.download_url]

RECURSIVE FilesOf(_)
FilesOf(items) ==
    IF items = <<>> THEN <<>>
    ELSE (IF Head(items).type = "file" THEN <<FileEntry(Head(items))>>
          ELSE <<>>) \o FilesOf(Tail(items))

fetch_workflow_files_unchecked(status, body) ==
    IF body.kind = "list" THEN FilesOf(body.items) ELSE <<>>

\* variant: only a directory that is not found gives no file
fetch_workflow_files_only404(status, body) ==
    IF status = 404 THEN <<>>
    ELSE IF body.kind = "list" THEN FilesOf(body.items)
    ELSE <<>>

fetch_workflow_files(status, body) ==
    IF status = 404 THEN <<>>
    ELSE IF status # 200 THEN <<>>
    ELSE IF body.kind = "list" THEN FilesOf(body.items)
    ELSE <<>>

\* main: `my_orgs_lower = [o.lower() for o in orgs]`
my_orgs_lower(o) == [i \in 1..Len(o) |-> Lower(Chars(o[i]))]

\* main: data_entry
DataEntry(wf, ref, own) ==
    [workflow_file |-> wf.path,
     uses_reference |-> ref,
     is_third_party |-> is_third_party(Chars(ref), own)]

\* main: `for action_ref in uses_list: repo_inventory.append(data_entry)`
EntriesOf(wf, uses_list, own) ==
    [i \in 1..Len(uses_list) |-> DataEntry(wf, uses_list[i], own)]

\* variant: a reference already recorded for the repository is skipped
ExtendInventoryOnce(inv, entries) ==
    inv \o SelectSeq(entries,
                     LAMBDA e : \A k \in 1..Len(inv) :
                                   inv[k].uses_reference # e.uses_reference)

\* main: `repo_inventory.append(data_entry)` for the entries of one file
ExtendInventory(inv, entries) == inv \o entries

\* action_ref.lower() raises AttributeError when action_ref is not a str
ClassifyRaises(uses_list) ==
    \E i \in 1..Len(uses_list) : uses_list[i] = NonString

\* main: `if repo_inventory: org_results[repo_name] = repo_inventory`
RecordRepoAlways(org_res, repo_name, inv) == DictPut(org_res, repo_name, inv)

RecordRepo(org_res, repo_name, inv) ==
    IF inv # <<>> THEN DictPut(org_res, repo_name, inv) ELSE org_res

\* main: `if org_results: results[org] = org_results`
RecordOrg(res, org, org_res) ==
    IF org_res # <<>> THEN DictPut(res, org, org_res) ELSE res

\* main: the summary lines, in the order of the loops over results
\* variant: every entry is listed, flagged or not
RECURSIVE EntryLinesAll(_, _, _)
EntryLinesAll(org, repo_name, entries) ==
    IF entries = <<>> THEN <<>>
    ELSE <<[org |-> org, repo |-> repo_name,
            uses_reference |-> Head(entries).uses_reference,
            workflow_file |-> Head(entries).workflow_file]>>
         \o EntryLinesAll(org, repo_name, Tail(entries))

RECURSIVE EntryLines(_, _, _)
EntryLines(org, repo_name, entries) ==
    IF entries = <<>> THEN <<>>
    ELSE (IF Head(entries).is_third_party
          THEN <<[org |-> org, repo |-> repo_name,
                  uses_reference |-> Head(entries).uses_reference,
                  workflow_file |-> Head(entries).workflow_file]>>
          ELSE <<>>) \o EntryLines(org, repo_name, Tail(entries))

RECURSIVE RepoLines(_, _)
RepoLines(org, repos_data) ==
    IF repos_data = <<>> THEN <<>>
    ELSE EntryLines(org, Head(repos_data).k, Head(repos_data).v)
         \o RepoLines(org, Tail(repos_data))

RECURSIVE SummaryLines(_)
SummaryLines(res) ==
    IF res = <<>> THEN <<>>
    ELSE RepoLines(Head(res).k, Head(res).v) \o SummaryLines(Tail(res))

----------------------------------------------------------------------------
(* The loops of main() as functions of the loop state                      *)

Cur == [pc |-> pc, orgIdx |-> orgIdx, repos |-> repos, page |-> page,
        repoIdx |-> repoIdx, workflow_files |-> workflow_files,
        fileIdx |-> fileIdx, repo_inventory |-> repo_inventory,
        org_results |-> org_results, results |-> results,
        visited |-> visited, enumEmpty |-> enumEmpty]

\* variant: the statements after the loop are in its body, after the first
\* organization
StartOrgDedent(st, ol, i) ==
    IF i > Len(ol) \/ i > 1 THEN [st EXCEPT !.pc = "write"]
    ELSE [st EXCEPT !.pc = "repos_gate", !.orgIdx = i, !.repos = <<>>,
                    !.page = 1, !.visited = Append(@, ol[i])]

\* `for org in orgs: repos = fetch_all_repos(org)`; after the loop, the report
StartOrg(st, ol, i) ==
    IF i > Len(ol) THEN [st EXCEPT !.pc = "write"]
    ELSE [st EXCEPT !.pc = "repos_gate", !.orgIdx = i, !.repos = <<>>,
                    !.page = 1, !.visited = Append(@, ol[i])]

\* end of the body of the loop over orgs
FinishOrg(st) ==
    StartOrg([st EXCEPT !.results =
                 RecordOrg(@, orgs[st.orgIdx], st.org_results)],
             orgs, st.orgIdx + 1)

\* `for repo in repos: workflow_files = fetch_workflow_files(...)`
StartRepo(st, j) ==
    IF j > Len(st.repos) THEN FinishOrg(st)
    ELSE [st EXCEPT !.pc = "wf_gate", !.repoIdx = j]

\* end of the body of the loop over repos
FinishRepo(st) ==
    StartRepo([st EXCEPT !.org_results =
                  RecordRepo(@, st.repos[st.repoIdx].name,
                             st.repo_inventory)],
              st.repoIdx + 1)

\* `for wf in workflow_files: uses_list = parse_workflow_file(...)`
StartFile(st, k) ==
    IF k > Len(st.workflow_files) THEN FinishRepo(st)
    ELSE [st EXCEPT !.pc = "content_gate", !.fileIdx = k]

\* main after fetch_workflow_files returned
AfterWorkflowFiles(st) ==
    IF st.workflow_files = <<>> THEN StartRepo(st, st.repoIdx + 1)
    ELSE StartFile([st EXCEPT !.repo_inventory = <<>>], 1)

\* main after fetch_all_repos returned
AfterRepos(st) ==
    IF st.repos = <<>>
    THEN StartOrg([st EXCEPT !.enumEmpty = @ \cup {orgs[st.orgIdx]}],
                  orgs, st.orgIdx + 1)
    ELSE StartRepo([st EXCEPT !.org_results = EmptyDict], 1)

\* the loop state becomes st
Apply(st) ==
    /\ pc' = st.pc
    /\ orgIdx' = st.orgIdx
    /\ repos' = st.repos
    /\ page' = st.page
    /\ repoIdx' = st.repoIdx
    /\ workflow_files' = st.workflow_files
    /\ fileIdx' = st.fileIdx
    /\ repo_inventory' = st.repo_inventory
    /\ org_results' = st.org_results
    /\ results' = st.results
    /\ visited' = st.visited
    /\ enumEmpty' = st.enumEmpty

loopVars == <<orgIdx, repos, page, repoIdx, workflow_files, fileIdx,
              repo_inventory, org_results, results, visited, enumEmpty>>
outVars == <<reportFile, writes, third_party_count, summary>>
histVars == <<notFound, parseLog, lastBatch>>

\* an exception nobody catches: traceback, exit status 1
Crash ==
    /\ pc' = "crashed"
    /\ exitStatus' = 1
    /\ UNCHANGED loopVars

\* sys.exit(1)
Exit1 ==
    /\ pc' = "exit"
    /\ exitStatus' = 1
    /\ UNCHANGED loopVars

----------------------------------------------------------------------------
(* Initial states *)

MainIdle ==
    /\ orgs = <<>> /\ orgIdx = 0 /\ repos = <<>> /\ page = 0 /\ repoIdx = 0
    /\ workflow_files = <<>> /\ fileIdx = 0 /\ repo_inventory = <<>>
    /\ org_results = EmptyDict /\ results = EmptyDict
    /\ reportFile = EmptyDict /\ writes = 0
    /\ third_party_count = 0 /\ summary = <<>>
    /\ exitStatus = -1 /\ lastSleep = 0
    /\ issued = {} /\ lastCall = [kind |-> "none", status |-> 0]
    /\ visited = <<>> /\ enumEmpty = {} /\ notFound = {}
    /\ parseLog = <<>> /\ lastBatch = 0

ClassIdle ==
    /\ cl_pc = "idle" /\ action_ref = <<>> /\ own_orgs = <<>> /\ cl_out = FALSE

NoSleep == [kind |-> "none", secs |-> 0]

SearchIdle ==
    /\ s_pc = "idle" /\ s_orgs = <<>> /\ s_idx = 0
    /\ retries = 0 /\ requests_made = 0 /\ search_results = <<>>
    /\ s_attempts = 0 /\ s_burst = 0 /\ s_sleep = NoSleep

ListIdle ==
    /\ wl_pc = "idle" /\ wl_status = 200
    /\ wl_body = [kind |-> "other", items |-> <<>>] /\ wl_out = <<>>

GateIdle ==
    /\ rl_pc = "idle"
    /\ rl_resp = [status |-> 200, remaining |-> 1, reset |-> 0]
    /\ rl_now = 0
    /\ rl_out = NotCalled

ParseIdle ==
    /\ pw_pc = "idle" /\ workflow_data = Doc("other", "absent", <<>>)
    /\ pw_out = Returned(<<>>)

Init ==
    /\ pc = "start"
    /\ tokenSet \in BOOLEAN
    /\ cache \in CacheStates
    /\ MainIdle
    /\ ClassIdle
    /\ ParseIdle
    /\ GateIdle
    /\ SearchIdle
    /\ ListIdle

----------------------------------------------------------------------------
(* main(), up to the crawl: the token check and load_orgs *)

LoadOrgs ==
    /\ pc = "start"
    /\ IF ~tokenSet
       THEN Exit1 /\ UNCHANGED orgs
       ELSE IF CacheUsable(cache)
       THEN /\ orgs' = cache.orgs
            /\ IF NoOrgs(cache.orgs) THEN Exit1
               ELSE Apply(StartOrg(Cur, cache.orgs, 1))
                    /\ UNCHANGED exitStatus
       ELSE /\ pc' = "fetch_orgs"
            /\ UNCHANGED <<orgs, exitStatus, loopVars>>
    /\ lastSleep' = 0
    /\ lastCall' = [kind |-> "none", status |-> 0]
    /\ UNCHANGED <<tokenSet, cache, issued, outVars, histVars, classVars,
                   parseVars, gateVars, searchVars, listVars>>

\* fetch_orgs, then the check of main on what load_orgs returned
FetchOrgs ==
    /\ pc = "fetch_orgs"
    /\ \E status \in Outcomes, body \in OrgLists :
         /\ issued' = issued \cup {"orgs"}
         /\ lastCall' = [kind |-> "orgs", status |-> status]
         /\ IF status = TransportError
            THEN Crash /\ UNCHANGED <<orgs, cache>>
            ELSE LET o == IF status = 200 THEN body ELSE <<>>
                 IN  /\ orgs' = o
                     /\ cache' = fetch_orgs_cache(status, body, cache)
                     /\ IF NoOrgs(o) THEN Exit1
                        ELSE Apply(StartOrg(Cur, o, 1))
                             /\ UNCHANGED exitStatus
    /\ lastSleep' = 0
    /\ UNCHANGED <<tokenSet, outVars, histVars, classVars, parseVars,
                   gateVars, searchVars, listVars>>

----------------------------------------------------------------------------
(* enforce_rate_limit, called before each request of the crawl *)

GateOf(p) ==
    CASE p = "repos_gate" -> "repos_call"
      [] p = "wf_gate" -> "wf_call"
      [] p = "content_gate" -> "content_call"

EnforceRateLimit ==
    /\ pc \in {"repos_gate", "wf_gate", "content_gate"}
    /\ \E resp \in RateResponses, now \in Clock :
         /\ issued' = issued \cup {"rate_limit"}
         /\ lastCall' = [kind |-> "rate_limit", status |-> resp.status]
         /\ IF resp.status = TransportError
            THEN Crash /\ UNCHANGED lastSleep
            ELSE LET rl == check_rate_limit(resp)
                 IN  /\ lastSleep' = IF rl[1] = 0 THEN SleepTime(rl[2], now)
                                      ELSE 0
                     /\ pc' = GateOf(pc)
                     /\ UNCHANGED <<exitStatus, loopVars>>
    /\ UNCHANGED <<tokenSet, cache, orgs, outVars, histVars, classVars,
                   parseVars, gateVars, searchVars, listVars>>

----------------------------------------------------------------------------
(* The crawl *)

\* the pages the API can return after the repositories rs: the next ones
Batches(rs) ==
    { [i \in 1..k |-> [name |-> RepoList[Len(rs) + i]]] :
        k \in 0..(IF Len(RepoList) - Len(rs) < MaxBatch
                  THEN Len(RepoList) - Len(rs) ELSE MaxBatch) }

\* fetch_all_repos: one request of the loop; when the loop ends, main goes on
FetchReposPage ==
    /\ pc = "repos_call"
    /\ \E status \in Outcomes, batch \in Batches(repos) :
         LET d == fetch_all_repos_page(status, batch)
         IN  /\ d = "extend" => page <= MaxPages
             /\ issued' = issued \cup {"repos"}
             /\ lastCall' = [kind |-> "repos", status |-> status]
             /\ lastBatch' = IF status = 200 THEN Len(batch) ELSE 0
             /\ CASE d = "raise" -> Crash
                  [] d = "break" ->
                       Apply(AfterRepos(Cur)) /\ UNCHANGED exitStatus
                  [] d = "extend" ->
                       Apply([Cur EXCEPT !.repos = @ \o batch,
                                         !.page = @ + 1,
                                         !.pc = "repos_gate"])
                       /\ UNCHANGED exitStatus
    /\ lastSleep' = 0
    /\ UNCHANGED <<tokenSet, cache, orgs, outVars, notFound, parseLog,
                   classVars, parseVars, gateVars, searchVars, listVars>>

\* fetch_workflow_files: its request; then main goes on
FetchWorkflowFiles ==
    /\ pc = "wf_call"
    /\ \E status \in Outcomes, body \in Listings :
         /\ issued' = issued \cup {"workflows"}
         /\ lastCall' = [kind |-> "workflows", status |-> status]
         /\ IF status = TransportError
            THEN Crash /\ UNCHANGED <<notFound, parseLog>>
            ELSE /\ Apply(AfterWorkflowFiles(
                        [Cur EXCEPT !.workflow_files =
                                        fetch_workflow_files(status, body)]))
                 /\ parseLog' =
                        IF fetch_workflow_files(status, body) = <<>>
                        THEN parseLog ELSE <<>>
                 /\ notFound' =
                        IF status = 404
                        THEN notFound \cup
                               {<<orgs[orgIdx], repos[repoIdx].name>>}
                        ELSE notFound
                 /\ UNCHANGED exitStatus
    /\ lastSleep' = 0
    /\ UNCHANGED <<tokenSet, cache, orgs, outVars, lastBatch, classVars, parseVars,
                   gateVars, searchVars, listVars>>

\* parse_workflow_file: its request and the extraction; then main classifies
\* the references, appends the entries and goes on
ParseWorkflowFile ==
    /\ pc = "content_call"
    /\ \E status \in Outcomes, doc \in CrawlDocs :
         LET wf == workflow_files[fileIdx]
             r  == parse_workflow_file(status, doc)
         IN  /\ issued' = issued \cup {"content"}
             /\ lastCall' = [kind |-> "content", status |-> status]
             /\ IF r.raised \/ ClassifyRaises(r.value)
                THEN Crash /\ UNCHANGED parseLog
                ELSE /\ Apply(StartFile(
                            [Cur EXCEPT !.repo_inventory =
                                ExtendInventory(@,
                                    EntriesOf(wf, r.value,
                                              my_orgs_lower(orgs)))],
                            fileIdx + 1))
                     /\ parseLog' =
                            Append(parseLog,
                                   [org |-> orgs[orgIdx],
                                    repo |-> repos[repoIdx].name,
                                    name |-> wf.name,
                                    uses |-> r.value])
                     /\ UNCHANGED exitStatus
    /\ lastSleep' = 0
    /\ UNCHANGED <<tokenSet, cache, orgs, outVars, notFound, lastBatch, classVars,
                   parseVars, gateVars, searchVars, listVars>>

----------------------------------------------------------------------------
(* main(), after the crawl *)

\* `json.dump(results, f)`
WriteReport ==
    /\ pc = "write"
    /\ reportFile' = results
    /\ writes' = writes + 1
    /\ pc' = "summary"
    /\ lastSleep' = 0
    /\ lastCall' = [kind |-> "none", status |-> 0]
    /\ UNCHANGED <<tokenSet, cache, orgs, loopVars, third_party_count,
                   summary, exitStatus, issued, histVars, classVars,
                   parseVars, gateVars, searchVars, listVars>>

\* the summary; main returns
PrintSummary ==
    /\ pc = "summary"
    /\ summary' = SummaryLines(results)
    /\ third_party_count' = Len(SummaryLines(results))
    /\ pc' = "done"
    /\ exitStatus' = 0
    /\ lastSleep' = 0
    /\ lastCall' = [kind |-> "none", status |-> 0]
    /\ UNCHANGED <<tokenSet, cache, orgs, loopVars, reportFile, writes,
                   issued, histVars, classVars, parseVars, gateVars, searchVars, listVars>>

Next ==
    \/ LoadOrgs
    \/ FetchOrgs
    \/ EnforceRateLimit
    \/ FetchReposPage
    \/ FetchWorkflowFiles
    \/ ParseWorkflowFile
    \/ WriteReport
    \/ PrintSummary

Spec == Init /\ [][Next]_vars

----------------------------------------------------------------------------
(* SpecGate: enforce_rate_limit applied to a response and a clock reading *)

InitGate ==
    /\ pc = "idle" /\ tokenSet = TRUE
    /\ cache = [state |-> "absent", orgs |-> <<>>]
    /\ MainIdle
    /\ ClassIdle
    /\ ParseIdle
    /\ rl_pc = "call"
    /\ rl_resp \in GateResponses
    /\ rl_now \in GateTimes
    /\ rl_out = NotCalled
    /\ SearchIdle
    /\ ListIdle

Enforce ==
    /\ rl_pc = "call"
    /\ rl_out' = enforce_rate_limit(rl_resp, rl_now)
    /\ rl_pc' = "done"
    /\ UNCHANGED <<rl_resp, rl_now, mainVars, classVars, parseVars,
                   searchVars, listVars>>

NextGate == Enforce

SpecGate == InitGate /\ [][NextGate]_vars

----------------------------------------------------------------------------
(* SpecClassify: is_third_party applied to a reference *)

InitClassify ==
    /\ pc = "idle" /\ tokenSet = TRUE
    /\ cache = [state |-> "absent", orgs |-> <<>>]
    /\ MainIdle
    /\ cl_pc = "call"
    /\ action_ref \in Refs(MaxTokens)
    /\ own_orgs \in OwnOrgLists
    /\ cl_out = FALSE
    /\ ParseIdle
    /\ GateIdle
    /\ SearchIdle
    /\ ListIdle

Classify ==
    /\ cl_pc = "call"
    /\ cl_out' = is_third_party(action_ref, own_orgs)
    /\ cl_pc' = "done"
    /\ UNCHANGED <<action_ref, own_orgs, mainVars, parseVars, gateVars, searchVars, listVars>>

NextClassify == Classify

SpecClassify == InitClassify /\ [][NextClassify]_vars

----------------------------------------------------------------------------
(* SpecParse: parse_workflow_file applied to a fetched document *)

InitParse ==
    /\ pc = "idle" /\ tokenSet = TRUE
    /\ cache = [state |-> "absent", orgs |-> <<>>]
    /\ MainIdle
    /\ ClassIdle
    /\ pw_pc = "call"
    /\ workflow_data \in Docs(MaxJobs)
    /\ pw_out = Returned(<<>>)
    /\ GateIdle
    /\ SearchIdle
    /\ ListIdle

Parse ==
    /\ pw_pc = "call"
    /\ pw_out' = parse_workflow_file(200, workflow_data)
    /\ pw_pc' = "done"
    /\ UNCHANGED <<workflow_data, mainVars, classVars, gateVars, searchVars, listVars>>

NextParse == Parse

SpecParse == InitParse /\ [][NextParse]_vars

----------------------------------------------------------------------------
(* Specification of the run with its scheduling: main() is one sequential  *)
(* thread, so a step that can be taken is taken.                           *)

FairSpec == Spec /\ WF_vars(Next)

----------------------------------------------------------------------------
(* SpecListing: fetch_workflow_files applied to a response *)

\* the `type` of an entry of a directory listing
ItemTypes == {"file", "dir", "symlink"}

\* JSON bodies: listings of at most MaxListing entries, in any order, with
\* repeats, or a value that is not a list
ListingBodies ==
    { [kind |-> "list", items |-> q] :
        q \in SeqsUpTo({ Item(t, n) : t \in ItemTypes,
                                      n \in {FileList[i] : i \in 1..Len(FileList)} },
                       MaxListing) }
    \cup {[kind |-> "other", items |-> <<>>]}

InitListing ==
    /\ pc = "idle" /\ tokenSet = TRUE
    /\ cache = [state |-> "absent", orgs |-> <<>>]
    /\ MainIdle
    /\ ClassIdle
    /\ ParseIdle
    /\ GateIdle
    /\ SearchIdle
    /\ wl_pc = "call"
    /\ wl_status \in StatusCodes
    /\ wl_body \in ListingBodies
    /\ wl_out = <<>>

ListWorkflowFiles ==
    /\ wl_pc = "call"
    /\ wl_out' = fetch_workflow_files(wl_status, wl_body)
    /\ wl_pc' = "done"
    /\ UNCHANGED <<wl_status, wl_body, mainVars, classVars, parseVars,
                   gateVars, searchVars>>

NextListing == ListWorkflowFiles

SpecListing == InitListing /\ [][NextListing]_vars

----------------------------------------------------------------------------
(* SpecSearch: search_all_orgs *)

\* `max_retries = 5`
max_retries == 5
\* `if requests_made >= 9`
CooldownEvery == 9

\* the organizations load_orgs can return to search_all_orgs
SearchOrgPool == <<"acme", "Beta", "gamma", "delta", "epsilon">>
SearchOrgLists == { SubSeq(SearchOrgPool, 1, n) : n \in 0..MaxSearchOrgs }

\* variant: one more turn of the loop
WhileRetriesOneMore(r) == r <= max_retries

\* `while retries < max_retries`
WhileRetries(r) == r < max_retries

\* `if requests_made >= 9`
CooldownDue(n) == n >= CooldownEvery

\* `sleep_time = 65 * (2 ** retries)`
BackoffTime(r) == 65 * (2 ^ r)

\* the body of the loop over orgs for the i-th organization, up to the
\* `while`; after the loop, the results are saved
SearchOrg(i) ==
    IF i > Len(s_orgs)
    THEN /\ s_pc' = "done"
         /\ s_sleep' = NoSleep
         /\ UNCHANGED <<s_idx, retries, requests_made, s_attempts, s_burst>>
    ELSE /\ s_idx' = i
         /\ IF CooldownDue(requests_made)
            THEN /\ s_sleep' = [kind |-> "cooldown", secs |-> 65]
                 /\ requests_made' = 0
                 /\ s_burst' = 0
            ELSE /\ s_sleep' = NoSleep
                 /\ UNCHANGED <<requests_made, s_burst>>
         /\ retries' = 0
         /\ s_attempts' = 0
         /\ s_pc' = "check"

InitSearch ==
    /\ pc = "idle" /\ tokenSet = TRUE
    /\ cache = [state |-> "absent", orgs |-> <<>>]
    /\ MainIdle
    /\ ClassIdle
    /\ ParseIdle
    /\ GateIdle
    /\ s_pc = "start"
    /\ s_orgs \in SearchOrgLists
    /\ s_idx = 0
    /\ retries = 0 /\ requests_made = 0 /\ search_results = <<>>
    /\ s_attempts = 0 /\ s_burst = 0 /\ s_sleep = NoSleep
    /\ ListIdle

\* `if not orgs: exit(1)`, then the first organization
SearchStart ==
    /\ s_pc = "start"
    /\ IF s_orgs = <<>>
       THEN /\ s_pc' = "exit"
            /\ UNCHANGED <<s_idx, retries, requests_made, s_attempts,
                           s_burst, s_sleep>>
       ELSE SearchOrg(1)
    /\ UNCHANGED <<s_orgs, search_results, mainVars, classVars, parseVars,
                   gateVars, listVars>>

\* the top of the `while`: check_rate_limit and the sleep for the quota
SearchCheck ==
    /\ s_pc = "check"
    /\ \E resp \in RateResponses, now \in Clock :
         IF resp.status = TransportError
         THEN /\ s_pc' = "crashed"
              /\ s_sleep' = NoSleep
              /\ UNCHANGED retries
         ELSE LET rl == check_rate_limit(resp)
              IN  /\ IF rl[1] = 0
                     THEN /\ s_sleep' = [kind |-> "quota",
                                          secs |-> SleepTime(rl[2], now)]
                          /\ retries' = retries + 1
                     ELSE /\ s_sleep' = NoSleep
                          /\ UNCHANGED retries
                  /\ s_pc' = "request"
    /\ UNCHANGED <<s_orgs, s_idx, requests_made, search_results, s_attempts,
                   s_burst, mainVars, classVars, parseVars, gateVars, listVars>>

\* the search request and what the loop does with its response
SearchRequest ==
    /\ s_pc = "request"
    /\ s_attempts' = s_attempts + 1
    /\ s_burst' = s_burst + 1
    /\ \E status \in Outcomes :
         CASE status = TransportError ->
                /\ s_pc' = "crashed"
                /\ s_sleep' = NoSleep
                /\ UNCHANGED <<s_idx, retries, requests_made,
                               search_results>>
           [] status = 200 ->
                /\ requests_made' = requests_made + 1
                /\ search_results' = Append(search_results, s_orgs[s_idx])
                /\ s_pc' = "org"
                /\ s_sleep' = NoSleep
                /\ UNCHANGED <<s_idx, retries>>
           [] status = 403 ->
                /\ requests_made' = requests_made + 1
                /\ retries' = retries + 1
                /\ s_sleep' = [kind |-> "backoff",
                               secs |-> BackoffTime(retries + 1)]
                /\ s_pc' = IF WhileRetries(retries + 1) THEN "check"
                           ELSE "org"
                /\ UNCHANGED <<s_idx, search_results>>
           [] OTHER ->
                /\ requests_made' = requests_made + 1
                /\ s_pc' = "org"
                /\ s_sleep' = NoSleep
                /\ UNCHANGED <<s_idx, retries, search_results>>
    /\ UNCHANGED <<s_orgs, mainVars, classVars, parseVars, gateVars, listVars>>

\* the `for` goes to the next organization, or ends and the results are saved
SearchNext ==
    /\ s_pc = "org"
    /\ SearchOrg(s_idx + 1)
    /\ UNCHANGED <<s_orgs, search_results, mainVars, classVars, parseVars,
                   gateVars, listVars>>

NextSearch == SearchStart \/ SearchCheck \/ SearchRequest \/ SearchNext

SpecSearch == InitSearch /\ [][NextSearch]_vars

FairSpecSearch == SpecSearch /\ WF_vars(NextSearch)

----------------------------------------------------------------------------
(* Properties of the run *)

CrawlKinds == {"repos", "workflows", "content"}
Failed(call) == call.kind \in CrawlKinds /\ call.status \in StatusCodes \ {200}
IsPrefix(p, q) == Len(p) <= Len(q) /\ p = SubSeq(q, 1, Len(p))

\* C1: a non-success response to a repository listing, a workflows listing
\* or a content fetch never ends the run: the step that handles it leaves
\* the run in the crawl (or at the report), keeps what was gathered, the
\* organizations are handed to fetch_all_repos in the order of the list,
\* all of them before the report is written, and the run always comes to
\* an end.
C1_FailureIsolated ==
    /\ [][Failed(lastCall')
            => /\ pc' \in {"repos_gate", "wf_gate", "content_gate", "write"}
               /\ exitStatus' = -1
               /\ IsPrefix(visited, visited')
               /\ IsPrefix(results, results')]_vars
    /\ [](IsPrefix(visited, orgs))
    /\ [](pc \in {"write", "summary", "done"} => visited = orgs)
    /\ <>(pc \in {"done", "exit", "crashed"})

\* C1 witness: the listing of the first organization failed and the second
\* organization is under way
C1_Witness ==
    /\ pc = "repos_gate" /\ orgIdx = 2
    /\ lastCall = [kind |-> "repos", status |-> 403]

\* C3: the run ends with a failure status only when no organization could
\* be resolved (stated for a run whose credential is set and whose last
\* request got a response).
C3_FailureOnlyWithoutOrgs ==
    (tokenSet /\ exitStatus = 1 /\ lastCall.status # TransportError)
        => orgs = <<>>

\* C4: when load_orgs resolves no organization the run stops there: no
\* request of the crawl, no rate-limit check, no report.
C4_NoCrawlWithoutOrgs ==
    (tokenSet /\ orgs = <<>> /\ pc \notin {"start", "fetch_orgs"})
        => /\ pc \in {"exit", "crashed"}
           /\ exitStatus = 1
           /\ issued \subseteq {"orgs"}
           /\ visited = <<>>
           /\ writes = 0 /\ reportFile = EmptyDict

\* C4 witness: the live fetch resolved nothing and the run exited
C4_Witness ==
    /\ pc = "exit" /\ tokenSet /\ orgs = <<>> /\ issued = {"orgs"}
    /\ lastCall.status = 200

\* C5: one organization, one repository, one workflow file ci.yml: the
\* report is {org: {repo: entries}} with one entry per reference, in order,
\* whose workflow_file is ci.yml, and the summary counts the third-party
\* entries.
C5_Expected(uses, own) ==
    [i \in 1..Len(uses) |->
        [workflow_file |-> "ci.yml",
         uses_reference |-> uses[i],
         is_third_party |-> is_third_party(Chars(uses[i]), own)]]

C5_EndToEnd ==
    (/\ pc = "done"
     /\ Len(orgs) = 1 /\ Len(repos) = 1 /\ Len(workflow_files) = 1
     /\ workflow_files[1].name = "ci.yml"
     /\ Len(parseLog) = 1 /\ parseLog[1].uses # <<>>)
        => LET exp == C5_Expected(parseLog[1].uses, my_orgs_lower(orgs))
           IN  /\ results =
                      << [k |-> orgs[1],
                          v |-> << [k |-> repos[1].name, v |-> exp] >>] >>
               /\ reportFile = results
               /\ third_party_count =
                      Cardinality({i \in 1..Len(exp) : exp[i].is_third_party})

\* C6: the report is sparse: no key for an organization whose enumeration
\* returned nothing, no organization without a repository, no repository
\* without an entry.
Sparse(res) ==
    /\ \A o \in enumEmpty : ~HasKey(res, o)
    /\ \A i \in 1..Len(res) :
         /\ res[i].v # <<>>
         /\ \A j \in 1..Len(res[i].v) : res[i].v[j].v # <<>>

C6_SparseReport ==
    /\ Sparse(results)
    /\ Sparse(reportFile)
    /\ pc \in {"summary", "done"} => reportFile = results

\* C6 witness: a finished run where one organization had no repository and
\* the other has a key with fewer repositories than were enumerated
C6_Witness ==
    /\ pc = "done" /\ enumEmpty # {} /\ reportFile # EmptyDict
    /\ Len(repos) = 2 /\ Len(reportFile[1].v) = 1
    /\ parseLog # <<>>

\* C7: a workflows directory that is not found gives an empty list, no
\* content request for that repository, and no key for it in the report.
C7_NotFoundAbsent ==
    /\ (lastCall = [kind |-> "workflows", status |-> 404] /\ pc # "crashed")
          => workflow_files = <<>>
    /\ pc \in {"content_gate", "content_call"}
          => <<orgs[orgIdx], repos[repoIdx].name>> \notin notFound
    /\ \A p \in notFound :
          /\ HasKey(results, p[1]) => ~HasKey(Get(results, p[1]), p[2])
          /\ HasKey(reportFile, p[1]) => ~HasKey(Get(reportFile, p[1]), p[2])
          /\ (pc \in {"wf_gate", "wf_call", "content_gate", "content_call"}
              /\ p[1] = orgs[orgIdx]) => ~HasKey(org_results, p[2])

\* C7 witness: a finished run whose report has a key for an organization
\* one of whose repositories had no workflows directory
C7_Witness ==
    /\ pc = "done"
    /\ \E p \in notFound : HasKey(reportFile, p[1])

----------------------------------------------------------------------------
(* Properties of parse_workflow_file *)

\* C2: parse_workflow_file never raises, whatever the document.
C2_ParseNeverRaises ==
    pw_pc = "done" => ~pw_out.raised

\* the documents of C8: every job is a mapping with a list of steps, every
\* step a mapping with a `uses` or with only a `run`
UsesRunDoc(d) ==
    /\ d.kind = "map" /\ d.jobs_kind = "map"
    /\ \A j \in 1..Len(d.jobs) :
         /\ d.jobs[j].kind = "map" /\ d.jobs[j].steps_kind = "list"
         /\ \A k \in 1..Len(d.jobs[j].steps) :
              /\ d.jobs[j].steps[k].kind = "map"
              /\ d.jobs[j].steps[k].uses # Absent \/ d.jobs[j].steps[k].run

AllSteps(d) == Flatten([j \in 1..Len(d.jobs) |-> d.jobs[j].steps])
HasUses(step) == step.uses # Absent
UsesSteps(d) == SelectSeq(AllSteps(d), HasUses)

\* C8: for such a document the result is exactly the `uses` values, in
\* job-then-step order, nothing for the `run` steps.
C8_UsesInOrder ==
    (pw_pc = "done" /\ UsesRunDoc(workflow_data))
        => /\ ~pw_out.raised
           /\ Len(pw_out.value) = Len(UsesSteps(workflow_data))
           /\ \A i \in 1..Len(pw_out.value) :
                pw_out.value[i] = UsesSteps(workflow_data)[i].uses

\* C8 witness: two jobs, each with a `uses` step and a `run` step
C8_Witness ==
    /\ pw_pc = "done"
    /\ workflow_data.jobs =
         <<MapJob("list", <<MapStep(Absent, TRUE), MapStep(RefCool, TRUE)>>),
           MapJob("list", <<MapStep(RefCheckout, FALSE),
                            MapStep(Absent, TRUE)>>)>>
    /\ pw_out = Returned(<<RefCool, RefCheckout>>)

----------------------------------------------------------------------------
(* Properties of is_third_party *)

\* the reference has no owner segment: once lowercased and stripped it is
\* empty or starts with `@` or `/`
NoOwner(ref) ==
    LET n == Strip(Lower(ref))
    IN  n = <<>> \/ n[1] \in {"@", "/"}

\* C9: a reference without an owner segment is first-party.
C9_NoOwnerFirstParty ==
    (cl_pc = "done" /\ NoOwner(action_ref)) => cl_out = FALSE

\* C10: a container-image reference docker://<image> is first-party.
C10_DockerImageFirstParty ==
    (cl_pc = "done"
     /\ StartsWith(action_ref, S_docker \o <<":", "/", "/">>))
        => cl_out = FALSE

\* the reference as the classifier reads it: lowercased, then trimmed
Norm(ref) == Strip(Lower(ref))

\* the owner segment: the text of the normalised reference before its first
\* `@` or `/`
OwnerSegment(ref) ==
    LET n == Norm(ref)
        stops == { i \in 1..Len(n) : n[i] \in {"@", "/"} }
        cut == IF stops = {} THEN Len(n) + 1
               ELSE CHOOSE i \in stops : \A j \in stops : i <= j
    IN  SubSeq(n, 1, cut - 1)

\* C11: a reference outside `actions/` whose owner segment is not empty and
\* not `docker` is third-party exactly when the owner is not one of the
\* lowercased own organizations, whatever the case of the reference.
C11_ThirdPartyIffNotOwn ==
    (/\ cl_pc = "done"
     /\ ~StartsWith(Norm(action_ref), S_actions_slash)
     /\ OwnerSegment(action_ref) # <<>>
     /\ OwnerSegment(action_ref) # S_docker)
        => (cl_out <=> ~InList(OwnerSegment(action_ref), own_orgs))

\* C11 witness: Acme/rand is first-party for the own organization acme
C11_Witness ==
    /\ cl_pc = "done"
    /\ action_ref = <<"A", "c", "m", "e", "/", "r", "a", "n", "d">>
    /\ own_orgs = << <<"a", "c", "m", "e">> >>
    /\ cl_out = FALSE

\* C12: a reference that, lowercased and trimmed, begins with `actions/` is
\* first-party whatever the own organizations.
C12_ActionsFirstParty ==
    (cl_pc = "done" /\ StartsWith(Norm(action_ref), S_actions_slash))
        => cl_out = FALSE

\* C12 witness: ` Actions/rand` with no own organization
C12_Witness ==
    /\ cl_pc = "done"
    /\ action_ref = <<" ", "A", "c", "t", "i", "o", "n", "s", "/",
                      "r", "a", "n", "d">>
    /\ own_orgs = <<>>
    /\ cl_out = FALSE

\* C13: a reference whose owner segment is `docker`, in any case, is
\* first-party whatever the own organizations.
C13_DockerOwnerFirstParty ==
    (cl_pc = "done" /\ OwnerSegment(action_ref) = S_docker)
        => cl_out = FALSE

\* C13 witness: Docker/rand with no own organization
C13_Witness ==
    /\ cl_pc = "done"
    /\ action_ref = <<"D", "o", "c", "k", "e", "r", "/", "r", "a", "n", "d">>
    /\ own_orgs = <<>>
    /\ cl_out = FALSE

----------------------------------------------------------------------------
(* Properties of the report and of the summary *)

\* C14: the report is written at most once, after the crawl of the last
\* organization; the summary comes after the write; before the end of the
\* crawl, and in a run that stops in the crawl, nothing is persisted.
C14_ReportOnceAtEnd ==
    /\ writes <= 1
    /\ writes = 0 => /\ reportFile = EmptyDict
                     /\ pc \notin {"summary", "done"}
                     /\ summary = <<>> /\ third_party_count = 0
    /\ writes = 1 => /\ pc \in {"summary", "done"}
                     /\ visited = orgs
                     /\ reportFile = results
    /\ pc = "summary" => summary = <<>>
    /\ pc \in {"crashed", "exit"} => writes = 0

\* C14 witness: a finished run over two organizations with findings
C14_Witness ==
    /\ pc = "done" /\ writes = 1 /\ Len(orgs) = 2 /\ Len(reportFile) = 2

\* the positions (organization, repository, entry) of the flagged entries
Flagged(rp) ==
    UNION { UNION { { <<i, j, k>> :
                        k \in { n \in 1..Len(rp[i].v[j].v) :
                                  rp[i].v[j].v[n].is_third_party } } :
                    j \in 1..Len(rp[i].v) } :
            i \in 1..Len(rp) }

\* the summary line of the entry at a position
LineAt(rp, t) ==
    [org |-> rp[t[1]].k,
     repo |-> rp[t[1]].v[t[2]].k,
     uses_reference |-> rp[t[1]].v[t[2]].v[t[3]].uses_reference,
     workflow_file |-> rp[t[1]].v[t[2]].v[t[3]].workflow_file]

\* C15: the total of the summary is the number of flagged entries of the
\* persisted report, and the summary lists exactly those entries, each as
\* often as it is stored, with its organization, repository and file.
C15_SummaryMatchesReport ==
    pc = "done"
        => /\ third_party_count = Cardinality(Flagged(reportFile))
           /\ Len(summary) = third_party_count
           /\ \A t \in Flagged(reportFile) :
                Cardinality({ i \in 1..Len(summary) :
                                summary[i] = LineAt(reportFile, t) })
                  = Cardinality({ u \in Flagged(reportFile) :
                                    LineAt(reportFile, u)
                                      = LineAt(reportFile, t) })
           /\ \A i \in 1..Len(summary) :
                \E t \in Flagged(reportFile) :
                    summary[i] = LineAt(reportFile, t)

\* C15 witness: a finished run with flagged entries in two organizations,
\* beside entries that are not flagged
C15_Witness ==
    /\ pc = "done" /\ third_party_count >= 2 /\ Len(reportFile) = 2
    /\ \E k \in 1..Len(reportFile[1].v[1].v) :
         ~reportFile[1].v[1].v[k].is_third_party

----------------------------------------------------------------------------
(* Properties of the organization cache *)

\* C16: whenever fetch_orgs is called and gets a response, ORG_FILE is
\* written and holds the list fetch_orgs returned.
C16_CacheRewrittenOnFetch ==
    (lastCall.kind = "orgs" /\ lastCall.status # TransportError)
        => cache = [state |-> "list", orgs |-> orgs]

\* C16 amended: ORG_FILE is written, with the list returned, when the
\* response is a success; on any other response fetch_orgs returns the
\* empty list and leaves ORG_FILE as it was.
C16_CacheRewrittenOnSuccess ==
    /\ []((lastCall.kind = "orgs" /\ lastCall.status = 200)
            => cache = [state |-> "list", orgs |-> orgs])
    /\ [][(lastCall'.kind = "orgs" /\ lastCall'.status # 200)
            => (cache' = cache /\ orgs' = <<>>)]_vars

\* C16 witness: a live fetch returned two organizations, now in the cache
C16_Witness ==
    /\ lastCall = [kind |-> "orgs", status |-> 200]
    /\ Len(orgs) = 2 /\ cache.orgs = orgs /\ pc = "repos_gate"

----------------------------------------------------------------------------
(* Properties of the request gate *)

CrawlCalls == {"orgs", "repos", "workflows", "content"}

\* C17: every remote call (organization listing, repository page listing,
\* workflows listing, content fetch) is issued by the step that follows a
\* rate-limit check of enforce_rate_limit, with no other call in between.
C17_EveryCallGated ==
    [][lastCall'.kind \in CrawlCalls => lastCall.kind = "rate_limit"]_vars

\* C18: enforce_rate_limit sleeps exactly when the check reports
\* remaining == 0; the sleep lasts max(reset - now, 65), so at least 65
\* seconds and at least the time left until the reset; after a non-success
\* response of the check it lasts exactly 65 seconds; there is one check and
\* at most one sleep.
C18_SleepIffExhausted ==
    (rl_pc = "done" /\ ~rl_out.raised) =>
        /\ rl_out.checks = 1
        /\ Len(rl_out.sleeps) <= 1
        /\ rl_out.result[1] = 0 <=>
             (rl_resp.status # 200 \/ rl_resp.remaining = 0)
        /\ rl_out.sleeps # <<>> <=> rl_out.result[1] = 0
        /\ rl_out.sleeps # <<>> =>
             LET d == rl_out.sleeps[1]
                 left == rl_out.result[2] - rl_now
             IN  /\ d >= 65 /\ d >= left
                 /\ d = 65 \/ d = left
        /\ rl_resp.status # 200 =>
             /\ rl_out.result = <<0, 0>>
             /\ rl_out.sleeps = <<65>>

\* C18 witness: quota exhausted, reset further away than 65 seconds
C18_Witness ==
    /\ rl_pc = "done" /\ rl_resp.status = 200 /\ rl_resp.remaining = 0
    /\ rl_resp.reset - rl_now > 65
    /\ rl_out.sleeps = <<rl_resp.reset - rl_now>>

\* C19: check_rate_limit returns (0, 0) for every non-success response and
\* for every transport failure of the quota request; no error reaches the
\* caller.
C19_CheckNeverRaises ==
    (rl_pc = "done" /\ rl_resp.status # 200) =>
        /\ ~rl_out.raised
        /\ rl_out.result = <<0, 0>>

----------------------------------------------------------------------------
(* Properties of a forbidden response in the crawl *)

Forbidden(c) == c.status = 403 /\ c.kind \in {"repos", "workflows", "content"}

\* the step just taken left main() in front of the call it has just made
SameCall ==
    /\ orgIdx' = orgIdx
    /\ CASE lastCall'.kind = "repos" ->
              pc' = "repos_gate" /\ page' = page
         [] lastCall'.kind = "workflows" ->
              pc' = "wf_gate" /\ repoIdx' = repoIdx
         [] lastCall'.kind = "content" ->
              /\ pc' = "content_gate"
              /\ repoIdx' = repoIdx /\ fileIdx' = fileIdx
         [] OTHER -> FALSE

\* C20: a 403 response to a repository listing, a workflows listing or a
\* content fetch is answered by making the same call again: the scope is
\* not ended with the data gathered so far.
C20_ForbiddenRetried ==
    [][Forbidden(lastCall') => SameCall]_vars

\* C20 amended: a 403 response to a crawl call is a plain failure of that
\* call: no sleep, no second attempt.  The enumeration of the repositories
\* ends with the repositories gathered so far, a workflows listing gives no
\* file and no content request for the repository, a content fetch gives no
\* reference, and the run goes on with the next file, repository or
\* organization.
C20_ForbiddenEndsScope ==
    [][Forbidden(lastCall') =>
         /\ ~SameCall
         /\ lastSleep' = 0
         /\ exitStatus' = exitStatus
         /\ lastCall'.kind = "repos" =>
              IF repos = <<>>
              THEN /\ orgs[orgIdx] \in enumEmpty'
                   /\ \/ pc' = "write"
                      \/ pc' = "repos_gate" /\ orgIdx' = orgIdx + 1
              ELSE pc' = "wf_gate" /\ repos' = repos /\ repoIdx' = 1
         /\ lastCall'.kind = "workflows" =>
              /\ parseLog' = parseLog
              /\ \/ pc' = "write"
                 \/ pc' = "repos_gate" /\ orgIdx' = orgIdx + 1
                 \/ /\ pc' = "wf_gate" /\ orgIdx' = orgIdx
                    /\ repoIdx' = repoIdx + 1
                    /\ org_results' = org_results
         /\ lastCall'.kind = "content" =>
              /\ Len(parseLog') = Len(parseLog) + 1
              /\ parseLog'[Len(parseLog')].uses = <<>>
              /\ pc' = "content_gate" =>
                   /\ fileIdx' = fileIdx + 1
                   /\ repo_inventory' = repo_inventory
    ]_vars

\* C20 witness: the second page of a listing was forbidden; the crawl goes
\* on with the repositories of the first page
C20_Witness ==
    /\ lastCall = [kind |-> "repos", status |-> 403]
    /\ pc = "wf_gate" /\ repos # <<>> /\ page = 2

----------------------------------------------------------------------------
(* Properties of search_all_orgs *)

SearchEnded == s_pc \in {"done", "exit", "crashed"}

\* C21: for every organization the retry loop ends, after at most
\* max_retries search requests for that organization, and the run goes on
\* with the next organization (and comes to an end).
C21_RetriesBounded ==
    /\ [](s_attempts <= max_retries)
    /\ [][s_attempts' > s_attempts => s_attempts < max_retries]_vars
    /\ \A i \in 1..MaxSearchOrgs :
          (s_idx = i /\ ~SearchEnded) ~> (s_idx # i \/ SearchEnded)
    /\ <>SearchEnded

\* C21 witness: five search requests were made for the first organization
\* and the second one is under way
C21_Witness ==
    /\ s_idx = 2 /\ s_pc = "check" /\ requests_made = max_retries
    /\ search_results = <<>>

\* C22: no more than 9 search requests are issued between two 65-second
\* cooldowns, or between the start of the run and the first cooldown.
C22_BurstAtMostNine ==
    s_pc # "crashed" => s_burst <= CooldownEvery

\* C28: a backoff sleep after a 403 response is followed by another attempt
\* for the same organization.
C28_BackoffThenRetry ==
    [][s_sleep'.kind = "backoff" => (s_pc' = "check" /\ s_idx' = s_idx)]_vars

----------------------------------------------------------------------------
(* Properties of load_orgs, fetch_all_repos and fetch_workflow_files *)

\* C23: load_orgs makes the live fetch exactly when the cache is absent or
\* does not parse; a cache that parses is returned as it is (an empty list
\* too), with no remote request and no write of the cache.
C23_CacheOrFetch ==
    /\ [][(pc = "start" /\ tokenSet) =>
            IF cache.state \in {"absent", "corrupt"}
            THEN pc' = "fetch_orgs" /\ issued' = issued
            ELSE /\ pc' # "fetch_orgs"
                 /\ orgs' = cache.orgs
                 /\ issued' = {}
                 /\ cache' = cache]_vars
    /\ [][lastCall'.kind = "orgs" =>
            (pc = "fetch_orgs" /\ cache.state # "list")]_vars
    /\ [][cache.state = "list" => cache' = cache]_vars
    /\ []("orgs" \in issued => pc \notin {"start", "fetch_orgs"})

\* C23 witness: the crawl is under way on the two organizations of the
\* cache, in the order of the cache, and no organization request was made
C23_Witness ==
    /\ cache = [state |-> "list", orgs |-> <<"Beta", "acme">>]
    /\ orgs = cache.orgs /\ "orgs" \notin issued
    /\ pc = "wf_gate" /\ orgIdx = 2

InRepoLoop == pc \in {"wf_gate", "wf_call", "content_gate", "content_call"}

\* C24: fetch_all_repos asks for pages 1, 2, 3, ... one after the other;
\* a non-empty success page is appended and the next page asked for; the
\* first page that is not a success or is empty ends the enumeration, which
\* returns the pages before it, in order; main then crawls them.
C24_PagesInOrder ==
    /\ [][(lastCall'.kind = "repos" /\ pc' # "crashed") =>
            LET ended ==
                  /\ repos' = repos \/ repos' = <<>>
                  /\ IF repos # <<>>
                     THEN /\ pc' = "wf_gate" /\ repos' = repos
                          /\ repoIdx' = 1 /\ orgIdx' = orgIdx
                     ELSE \/ pc' = "write"
                          \/ pc' = "repos_gate" /\ orgIdx' = orgIdx + 1
                extended ==
                  /\ Len(repos') > Len(repos) /\ IsPrefix(repos, repos')
                  /\ page' = page + 1
                  /\ pc' = "repos_gate" /\ orgIdx' = orgIdx
            IN  /\ lastCall'.status # 200 => ended
                /\ lastCall'.status = 200 => (extended \/ ended)]_vars
    /\ [][(pc' = "repos_gate" /\ (pc # "repos_call" \/ orgIdx' # orgIdx))
            => (page' = 1 /\ repos' = <<>>)]_vars
    /\ [][pc = "repos_gate" => (page' = page /\ repos' = repos)]_vars
    /\ [][(InRepoLoop /\ InRepoLoop') => repos' = repos]_vars
    /\ [](InRepoLoop => (repos # <<>> /\ repoIdx \in 1..Len(repos)))

\* C24 witness: two pages of one repository each, then an empty page; the
\* second repository is being crawled
C24_Witness ==
    /\ pc = "wf_gate" /\ page = 3 /\ Len(repos) = 2 /\ repoIdx = 2

\* C25: the enumeration loop is left exactly when the response is not a
\* success or the page is empty; a non-empty success page always leads to
\* the request of the next page, whatever the page number; the run comes
\* to an end, so every enumeration in it has ended.
C25_EnumerationEnds ==
    /\ [][(lastCall'.kind = "repos" /\ pc' # "crashed") =>
            /\ (lastCall'.status # 200 \/ lastBatch' = 0)
                 <=> ~(pc' = "repos_gate" /\ orgIdx' = orgIdx)
            /\ (lastCall'.status = 200 /\ lastBatch' > 0)
                 <=> (/\ pc' = "repos_gate" /\ orgIdx' = orgIdx
                      /\ page' = page + 1
                      /\ Len(repos') = Len(repos) + lastBatch')]_vars
    /\ [][(pc \in {"repos_gate", "repos_call"} /\ pc' # "crashed"
           /\ ~(pc' \in {"repos_gate", "repos_call"} /\ orgIdx' = orgIdx))
            => lastCall'.kind = "repos"]_vars
    /\ <>(pc \in {"done", "exit", "crashed"})

\* C25 witness: the enumeration of the second organization goes on after a
\* second non-empty page
C25_Witness ==
    /\ pc = "repos_gate" /\ orgIdx = 2 /\ page = 3 /\ lastBatch = 1
    /\ lastCall = [kind |-> "repos", status |-> 200]

\* the entries of type file of a listing, in order, as the three fields
FileTriples(items) ==
    LET fs == SelectSeq(items, LAMBDA it : it.type = "file")
    IN  [i \in 1..Len(fs) |->
            [name |-> fs[i].name, path |-> fs[i].path,
             download_url |-> fs[i].download_url]]

\* C26: for a success response whose body is a listing, fetch_workflow_files
\* returns the entries of type file, in listing order, each as (name, path,
\* download_url); for a success response whose JSON body is not a listing
\* and for every non-success response it returns the empty list.
C26_FilesOfListing ==
    wl_pc = "done" =>
        IF wl_status = 200 /\ wl_body.kind = "list"
        THEN wl_out = FileTriples(wl_body.items)
        ELSE wl_out = <<>>

\* C26 witness: a listing with a directory between two files, the files are
\* returned in the order of the listing
C26_Witness ==
    /\ wl_pc = "done" /\ wl_status = 200 /\ Len(wl_body.items) = 3
    /\ wl_body.items[1].type = "file" /\ wl_body.items[1].name = "release.yml"
    /\ wl_body.items[2].type = "dir"
    /\ wl_body.items[3].type = "file" /\ wl_body.items[3].name = "ci.yml"
    /\ Len(wl_out) = 2 /\ wl_out[1].name = "release.yml"

----------------------------------------------------------------------------
(* Properties of the entry lists *)

\* (workflow file path, reference) of every reference the parser returned
\* for the files of the log, in the order of the log
RECURSIVE LogRefs(_)
LogRefs(log) ==
    IF log = <<>> THEN <<>>
    ELSE LET last == log[Len(log)]
         IN  LogRefs(SubSeq(log, 1, Len(log) - 1))
             \o [j \in 1..Len(last.uses) |-> <<PathOf(last.name), last.uses[j]>>]

\* (workflow file path, reference) of the entries of a list
EntryRefs(inv) ==
    [k \in 1..Len(inv) |-> <<inv[k].workflow_file, inv[k].uses_reference>>]

\* the entry list recorded for repository r of organization o, if any
Recorded(o, r) ==
    IF HasKey(results, o)
    THEN (IF HasKey(Get(results, o), r) THEN Get(Get(results, o), r) ELSE <<>>)
    ELSE IF orgIdx \in 1..Len(orgs) /\ orgs[orgIdx] = o /\ HasKey(org_results, r)
    THEN Get(org_results, r)
    ELSE <<>>

\* C27: the entry list of a repository is, in the order of the listing of
\* its workflow files and within a file in the order of extraction, one
\* entry for every reference the parser returned, repeats included; its
\* length is the number of references extracted; a list once in the results
\* is not changed, and the report is the results.
C27_NoDeduplication ==
    /\ [](pc \in {"content_gate", "content_call"} =>
            /\ Len(parseLog) = fileIdx - 1
            /\ \A i \in 1..Len(parseLog) :
                   parseLog[i].name = workflow_files[i].name
            /\ EntryRefs(repo_inventory) = LogRefs(parseLog))
    /\ []((parseLog # <<>> /\ pc \notin {"content_gate", "content_call",
                                         "crashed"}) =>
            EntryRefs(Recorded(parseLog[1].org, parseLog[1].repo))
               = LogRefs(parseLog))
    /\ [][(pc = "content_call" /\ pc' \notin {"content_gate", "crashed"})
            => (/\ Len(parseLog') = Len(workflow_files)
                /\ \A i \in 1..Len(parseLog') :
                       parseLog'[i].name = workflow_files[i].name)]_vars
    /\ [][pc' # "crashed" => IsPrefix(results, results')]_vars
    /\ [](writes = 1 => reportFile = results)

\* C27 witness: two workflow files with the same three references each, one
\* of them twice in each file: six entries in the report
C27_Witness ==
    /\ pc = "done" /\ Len(parseLog) = 2
    /\ Len(LogRefs(parseLog)) = 6
    /\ \E i \in 1..Len(reportFile) : \E j \in 1..Len(reportFile[i].v) :
          /\ reportFile[i].k = parseLog[1].org
          /\ reportFile[i].v[j].k = parseLog[1].repo
          /\ Len(reportFile[i].v[j].v) = 6
          /\ reportFile[i].v[j].v[2].uses_reference
               = reportFile[i].v[j].v[3].uses_reference
          /\ reportFile[i].v[j].v[2].uses_reference
               = reportFile[i].v[j].v[5].uses_reference

====
